---- MODULE Spec2Model ----
(***************************************************************************)
(* flex-version: the component scanner (ComponentParser), Version          *)
(* construction (FromStr, Default), rendering (Display) and the            *)
(* equality / ordering of Versions (PartialEq, Ord).                       *)
(*                                                                         *)
(* A &str is a sequence of one-character strings.  Option<T> is a sequence *)
(* of length at most one: None is <<>>, Some(x) is <<x>>.                  *)
(***************************************************************************)
EXTENDS Integers, Sequences, FiniteSets, TLC

(***************************************************************************)
(* Bounds of the model.                                                    *)
(***************************************************************************)
\* Longest input text handed to Version::from_str.
MaxLen == 6

\* u64::MAX, scaled down so that a digit run of the bounded input overflows.
NumberMax == 10

\* Most components of a Version handed to eq / cmp.
MaxComponents == 2

\* Most phantom zeros appended to a Version ("1.2.0.0.0.0" has four).
MaxZeros == 4

\* Characters the input texts are drawn from: two digits, a letter, a
\* separator, and the three characters of a vendor suffix.
InputChars == {"0", "1", "a", ".", " ", "(", ")"}

\* Number payloads and Identifier payloads of the Versions handed to eq / cmp.
CmpNumbers == {0, 1}

CmpIdentifiers == {<<"a">>, <<"a", "b">>}

(***************************************************************************)
(* Characters.                                                             *)
(***************************************************************************)
COMPONENT_SEPARATORS == {".", "-", "_", "+", ":"}

\* Every character a text of the model may hold.
AnyChar ==
    {"0", "1", "2", "3", "4", "5", "6", "7", "8", "9",
     "A", "B", "C", "D", "E", "F", "G", "H", "I", "J", "K", "L", "M",
     "N", "O", "P", "Q", "R", "S", "T", "U", "V", "W", "X", "Y", "Z",
     "a", "b", "c", "d", "e", "f", "g", "h", "i", "j", "k", "l", "m",
     "n", "o", "p", "q", "r", "s", "t", "u", "v", "w", "x", "y", "z",
     ".", "-", "_", "+", ":", " ", "(", ")"}

DigitChars == <<"0", "1", "2", "3", "4", "5", "6", "7", "8", "9">>

LetterChars == <<"A", "B", "C", "D", "E", "F", "G", "H", "I", "J", "K", "L", "M",
                 "N", "O", "P", "Q", "R", "S", "T", "U", "V", "W", "X", "Y", "Z",
                 "a", "b", "c", "d", "e", "f", "g", "h", "i", "j", "k", "l", "m",
                 "n", "o", "p", "q", "r", "s", "t", "u", "v", "w", "x", "y", "z">>

\* char::is_ascii_digit, as the set of characters it accepts.
is_ascii_digit == {DigitChars[i] : i \in 1..10}

\* char::is_ascii_alphabetic, as the set of characters it accepts.
is_ascii_alphabetic == {LetterChars[i] : i \in 1..52}

\* The value of a digit character.
DigitValue(c) == (CHOOSE i \in 1..10 : DigitChars[i] = c) - 1

\* The byte of a letter: upper case (65..90) sorts before lower case (97..122).
ByteOf(c) ==
    LET i == CHOOSE j \in 1..52 : LetterChars[j] = c
    IN  IF i <= 26 THEN 64 + i ELSE 70 + i

None == <<>>

Some(x) == <<x>>

(***************************************************************************)
(* Component.                                                              *)
(***************************************************************************)
Number(n) == [kind |-> "Number", number |-> n, id |-> <<>>]

Identifier(s) == [kind |-> "Identifier", number |-> 0, id |-> s]

\* Component::default()
ComponentDefault == Number(0)

\* str's Ord: lexicographic by bytes, a proper prefix first.  The payload
\* comparison of two Identifiers under the derived Ord of Component.
RECURSIVE StrCmp(_, _)
StrCmp(s, t) ==
    IF s = <<>> /\ t = <<>> THEN "Equal"
    ELSE IF s = <<>> THEN "Less"
    ELSE IF t = <<>> THEN "Greater"
    ELSE IF ByteOf(Head(s)) < ByteOf(Head(t)) THEN "Less"
    ELSE IF ByteOf(Head(s)) > ByteOf(Head(t)) THEN "Greater"
    ELSE StrCmp(Tail(s), Tail(t))

\* u64's Ord.
U64Cmp(m, n) == IF m < n THEN "Less" ELSE IF m > n THEN "Greater" ELSE "Equal"

\* Discriminant with the variants declared the other way round.
DiscriminantNumberFirst(c) == IF c.kind = "Number" THEN 0 ELSE 1

\* The position of a variant in the declaration of enum Component, which is
\* what the derived Ord compares first: Identifier is declared before Number.
Discriminant(c) == IF c.kind = "Identifier" THEN 0 ELSE 1

\* #[derive(PartialOrd, Ord)] on Component: by variant, then by payload.
ComponentCmp(c1, c2) ==
    IF Discriminant(c1) < Discriminant(c2) THEN "Less"
    ELSE IF Discriminant(c1) > Discriminant(c2) THEN "Greater"
    ELSE IF c1.kind = "Identifier" THEN StrCmp(c1.id, c2.id)
    ELSE U64Cmp(c1.number, c2.number)

\* #[derive(PartialEq, Eq)] on Component: same variant, same payload.
ComponentEq(c1, c2) ==
    /\ c1.kind = c2.kind
    /\ IF c1.kind = "Identifier" THEN c1.id = c2.id ELSE c1.number = c2.number

\* impl Display for Component, Number arm: the decimal digits of the number.
RECURSIVE ToDecimal(_)
ToDecimal(n) ==
    IF n < 10 THEN <<DigitChars[n + 1]>>
    ELSE Append(ToDecimal(n \div 10), DigitChars[(n % 10) + 1])

\* impl Display for Component.
ComponentDisplay(c) == IF c.kind = "Number" THEN ToDecimal(c.number) ELSE c.id

(***************************************************************************)
(* Version: equality and ordering.                                         *)
(***************************************************************************)
\* Iterator::next of slice.iter().fuse(), the cursor being at index i.
IterNext(v, i) == IF i <= Len(v) THEN Some(v[i]) ELSE None

\* The pattern Some(Component::Number(0)).
IsZero(x) == x # None /\ x[1].kind = "Number" /\ x[1].number = 0

\* EqMatch without the two phantom-zero arms.
EqMatchNoPhantom(x, y) ==
    IF x = None /\ y = None THEN Some(TRUE)
    ELSE IF x = None THEN Some(FALSE)
    ELSE IF y = None THEN Some(FALSE)
    ELSE IF ComponentEq(x[1], y[1]) THEN None
    ELSE Some(FALSE)

\* The match of Version::eq on one pair of items: None for `continue`,
\* Some(result) for `return result`.
EqMatch(x, y) ==
    IF x = None /\ y = None THEN Some(TRUE)
    ELSE IF x = None /\ IsZero(y) THEN None
    ELSE IF IsZero(x) /\ y = None THEN None
    ELSE IF x = None THEN Some(FALSE)
    ELSE IF y = None THEN Some(FALSE)
    ELSE IF ComponentEq(x[1], y[1]) THEN None
    ELSE Some(FALSE)

\* The loop of Version::eq, both cursors being at index i.
RECURSIVE EqLoop(_, _, _)
EqLoop(v, w, i) ==
    LET r == EqMatch(IterNext(v, i), IterNext(w, i))
    IN  IF r = None THEN EqLoop(v, w, i + 1) ELSE r[1]

\* impl PartialEq for Version.
VersionEq(v, w) == EqLoop(v, w, 1)

\* CmpMatch with the last missing-component arm returning Greater, as the arm
\* before it does.
CmpMatchIdentifierGreater(x, y) ==
    IF x = None /\ y = None THEN Some("Equal")
    ELSE IF x = None /\ IsZero(y) THEN None
    ELSE IF IsZero(x) /\ y = None THEN None
    ELSE IF x = None /\ y[1].kind = "Number" THEN Some("Less")
    ELSE IF y = None /\ x[1].kind = "Number" THEN Some("Greater")
    ELSE IF x = None /\ y[1].kind = "Identifier" THEN Some("Greater")
    ELSE IF y = None /\ x[1].kind = "Identifier" THEN Some("Greater")
    ELSE IF ComponentCmp(x[1], y[1]) = "Equal" THEN None
    ELSE Some(ComponentCmp(x[1], y[1]))

\* CmpMatch with the exhausted side Greater whatever the other side holds.
CmpMatchMissingGreater(x, y) ==
    IF x = None /\ y = None THEN Some("Equal")
    ELSE IF x = None /\ IsZero(y) THEN None
    ELSE IF IsZero(x) /\ y = None THEN None
    ELSE IF x = None /\ y[1].kind = "Number" THEN Some("Greater")
    ELSE IF y = None /\ x[1].kind = "Number" THEN Some("Less")
    ELSE IF x = None /\ y[1].kind = "Identifier" THEN Some("Greater")
    ELSE IF y = None /\ x[1].kind = "Identifier" THEN Some("Less")
    ELSE IF ComponentCmp(x[1], y[1]) = "Equal" THEN None
    ELSE Some(ComponentCmp(x[1], y[1]))

\* CmpMatch with the exhausted side Less whatever the other side holds.
CmpMatchMissingLess(x, y) ==
    IF x = None /\ y = None THEN Some("Equal")
    ELSE IF x = None /\ IsZero(y) THEN None
    ELSE IF IsZero(x) /\ y = None THEN None
    ELSE IF x = None /\ y[1].kind = "Number" THEN Some("Less")
    ELSE IF y = None /\ x[1].kind = "Number" THEN Some("Greater")
    ELSE IF x = None /\ y[1].kind = "Identifier" THEN Some("Less")
    ELSE IF y = None /\ x[1].kind = "Identifier" THEN Some("Greater")
    ELSE IF ComponentCmp(x[1], y[1]) = "Equal" THEN None
    ELSE Some(ComponentCmp(x[1], y[1]))

\* The match of Version::cmp on one pair of items: None for `continue`,
\* Some(ordering) for `return ordering`.
CmpMatch(x, y) ==
    IF x = None /\ y = None THEN Some("Equal")
    ELSE IF x = None /\ IsZero(y) THEN None
    ELSE IF IsZero(x) /\ y = None THEN None
    ELSE IF x = None /\ y[1].kind = "Number" THEN Some("Less")
    ELSE IF y = None /\ x[1].kind = "Number" THEN Some("Greater")
    ELSE IF x = None /\ y[1].kind = "Identifier" THEN Some("Greater")
    ELSE IF y = None /\ x[1].kind = "Identifier" THEN Some("Less")
    ELSE IF ComponentCmp(x[1], y[1]) = "Equal" THEN None
    ELSE Some(ComponentCmp(x[1], y[1]))

\* The loop of Version::cmp, both cursors being at index i.
RECURSIVE CmpLoop(_, _, _)
CmpLoop(v, w, i) ==
    LET r == CmpMatch(IterNext(v, i), IterNext(w, i))
    IN  IF r = None THEN CmpLoop(v, w, i + 1) ELSE r[1]

\* impl Ord for Version.
VersionCmp(v, w) == CmpLoop(v, w, 1)

\* impl Default for Version: vec![Component::default(); 3].
VersionDefault == <<ComponentDefault, ComponentDefault, ComponentDefault>>

\* DisplayRest writing "{}" where the code writes ".{}".
RECURSIVE DisplayRestNoDot(_)
DisplayRestNoDot(v) ==
    IF v = <<>> THEN <<>>
    ELSE ComponentDisplay(Head(v)) \o DisplayRestNoDot(Tail(v))

\* impl Display for Version: the first component, then ".{}" for each other.
RECURSIVE DisplayRest(_)
DisplayRest(v) ==
    IF v = <<>> THEN <<>>
    ELSE <<".">> \o ComponentDisplay(Head(v)) \o DisplayRest(Tail(v))

VersionDisplay(v) ==
    IF v = <<>> THEN <<>> ELSE ComponentDisplay(Head(v)) \o DisplayRest(Tail(v))

(***************************************************************************)
(* ComponentParser.                                                        *)
(***************************************************************************)
\* Length of the longest prefix of input whose characters are all in chars.
RECURSIVE RunLen(_, _)
RunLen(input, chars) ==
    IF input # <<>> /\ Head(input) \in chars
    THEN 1 + RunLen(Tail(input), chars)
    ELSE 0

\* util::SplitPrefix::split_prefix: the maximal non-empty run of characters
\* satisfying the predicate and the rest, or None when the run is empty.
split_prefix(input, chars) ==
    LET n == RunLen(input, chars)
    IN  IF n = 0 THEN None
        ELSE Some([prefix |-> SubSeq(input, 1, n),
                   tail |-> SubSeq(input, n + 1, Len(input))])

\* str::strip_prefix with a pattern that matches one character of chars.
StripChar(input, chars) ==
    IF input # <<>> /\ Head(input) \in chars THEN Some(Tail(input)) ELSE None

\* str::strip_prefix with a string pattern.
StripPrefix(input, pat) ==
    IF Len(input) >= Len(pat) /\ SubSeq(input, 1, Len(pat)) = pat
    THEN Some(SubSeq(input, Len(pat) + 1, Len(input)))
    ELSE None

\* str::trim_start_matches(|c| c != ')').
TrimStartNotParen(input) ==
    LET n == RunLen(input, AnyChar \ {")"})
    IN  SubSeq(input, n + 1, Len(input))

\* str::parse::<u64> of a non-empty run of digits: Some(value), or None when
\* the value exceeds the greatest number.
RECURSIVE ParseU64From(_, _)
ParseU64From(digits, acc) ==
    IF digits = <<>> THEN Some(acc)
    ELSE LET next == acc * 10 + DigitValue(Head(digits))
         IN  IF next > NumberMax THEN None ELSE ParseU64From(Tail(digits), next)

ParseU64(digits) == ParseU64From(digits, 0)

\* ComponentParser::parse_integer: the parsed value and the input left, or
\* None with the input untouched.
parse_integer(input) ==
    LET sp == split_prefix(input, is_ascii_digit)
        integer == ParseU64(sp[1].prefix)
    IN  IF sp # None /\ integer # None
        THEN Some([value |-> integer[1], input |-> sp[1].tail])
        ELSE None

\* ComponentParser::parse_number.
parse_number(input) ==
    LET r == parse_integer(input)
    IN  IF r = None THEN None
        ELSE Some([component |-> Number(r[1].value), input |-> r[1].input])

\* ComponentParser::parse_identifier.
parse_identifier(input) ==
    LET sp == split_prefix(input, is_ascii_alphabetic)
    IN  IF sp = None THEN None
        ELSE Some([component |-> Identifier(sp[1].prefix), input |-> sp[1].tail])

\* ComponentParser::error.
error(p) == p.input

\* impl From<&str> for ComponentParser.
ComponentParserFrom(input) == [first |-> TRUE, input |-> input]

\* What Iterator::next hands back, with the parser as the call leaves it.
\* kind is "None", "Ok" (a component) or "Err" (a ParseVersionError).
ItemNone(p) ==
    [parser |-> p, kind |-> "None", component |-> ComponentDefault, fragment |-> <<>>]

ItemOk(p, c) ==
    [parser |-> p, kind |-> "Ok", component |-> c, fragment |-> <<>>]

ItemErr(p) ==
    [parser |-> p, kind |-> "Err", component |-> ComponentDefault, fragment |-> error(p)]

\* The tail of ComponentParser::next: a number, else an identifier, else an
\* error.
ParseComponent(p) ==
    LET number == parse_number(p.input)
        identifier == parse_identifier(p.input)
    IN  IF number # None
        THEN ItemOk([p EXCEPT !.input = number[1].input], number[1].component)
        ELSE IF identifier # None
        THEN ItemOk([p EXCEPT !.input = identifier[1].input], identifier[1].component)
        ELSE ItemErr(p)

\* VendorSuffix with " (" consumed before the check, so that the error is
\* generated from the input behind it.
VendorSuffixConsumed(p, tail) ==
    IF TrimStartNotParen(tail) = <<")">>
    THEN ItemNone([p EXCEPT !.input = <<>>])
    ELSE ItemErr([p EXCEPT !.input = tail])

\* VendorSuffix asking only that the input ends with ')'.
VendorSuffixLastParen(p, tail) ==
    IF tail # <<>> /\ tail[Len(tail)] = ")"
    THEN ItemNone([p EXCEPT !.input = <<>>])
    ELSE ItemErr(p)

\* The vendor-suffix arm of ComponentParser::next, tail being the input after
\* " (".
VendorSuffix(p, tail) ==
    IF TrimStartNotParen(tail) = <<")">>
    THEN ItemNone([p EXCEPT !.input = <<>>])
    ELSE ItemErr(p)

\* ComponentParserNext without the `first` flag: a separator is stripped
\* before the first component too.
ComponentParserNextNoFirst(p) ==
    LET separated == StripChar(p.input, COMPONENT_SEPARATORS)
        suffixed == StripPrefix(p.input, <<" ", "(">>)
    IN  IF p.input = <<>> THEN ItemNone(p)
        ELSE IF separated # None
        THEN ParseComponent([p EXCEPT !.first = FALSE, !.input = separated[1]])
        ELSE IF suffixed # None /\ ~p.first THEN VendorSuffix(p, suffixed[1])
        ELSE ParseComponent([p EXCEPT !.first = FALSE])

\* impl Iterator for ComponentParser: next.
ComponentParserNext(p) ==
    LET separated == StripChar(p.input, COMPONENT_SEPARATORS)
        suffixed == StripPrefix(p.input, <<" ", "(">>)
    IN  IF p.input = <<>> THEN ItemNone(p)
        ELSE IF p.first THEN ParseComponent([p EXCEPT !.first = FALSE])
        ELSE IF separated # None THEN ParseComponent([p EXCEPT !.input = separated[1]])
        ELSE IF suffixed # None THEN VendorSuffix(p, suffixed[1])
        ELSE ParseComponent(p)

(***************************************************************************)
(* State.                                                                  *)
(***************************************************************************)
VARIABLES
    status,     \* "idle", "scanning" (inside collect), "ok" or "err"
    text,       \* the &str handed to Version::from_str
    parser,     \* the ComponentParser that collect drains
    items,      \* the components collect has gathered so far
    version,    \* Option: the Version a constructor returned
    failure,    \* Option: the fragment of the ParseVersionError returned
    rendered,   \* Option: the text Display produced for version
    original,   \* Option: the Version whose rendered text is being parsed again
    a,          \* left operand of eq / cmp
    b,          \* right operand of eq / cmp
    ordering,   \* Option: the result of a.cmp(&b)
    equal,      \* Option: the result of a == b
    c,          \* Option: a third Version, listed with a and b to be sorted
    sorted      \* Option: the list sort() left

vars == <<status, text, parser, items, version, failure, rendered, original,
          a, b, ordering, equal, c, sorted>>

parseVars == <<status, text, parser, items, version, failure, rendered, original>>

orderVars == <<a, b, ordering, equal, c, sorted>>

\* All sequences over S of length at most n.
SeqsUpTo(S, n) == UNION {[1..k -> S] : k \in 0..n}

\* The texts handed to Version::from_str.
Inputs == SeqsUpTo(InputChars, MaxLen)

(***************************************************************************)
(* Parsing and rendering.                                                  *)
(***************************************************************************)
Init ==
    /\ status = "idle"
    /\ text = <<>>
    /\ parser = ComponentParserFrom(<<>>)
    /\ items = <<>>
    /\ version = None
    /\ failure = None
    /\ rendered = None
    /\ original = None
    /\ a = <<>>
    /\ b = <<>>
    /\ ordering = None
    /\ equal = None
    /\ c = None
    /\ sorted = None

\* Version::from_str(input) for some input, up to the construction of the
\* ComponentParser.
FromStr ==
    /\ status = "idle"
    /\ \E input \in Inputs :
          /\ text' = input
          /\ parser' = ComponentParserFrom(input)
    /\ status' = "scanning"
    /\ UNCHANGED <<items, version, failure, rendered, original>>
    /\ UNCHANGED orderVars

\* collect: the parser yields Some(Ok(component)), which is kept.
CollectItem ==
    /\ status = "scanning"
    /\ LET item == ComponentParserNext(parser)
       IN  /\ item.kind = "Ok"
           /\ parser' = item.parser
           /\ items' = Append(items, item.component)
    /\ UNCHANGED <<status, text, version, failure, rendered, original>>
    /\ UNCHANGED orderVars

\* collect: the parser yields None; from_str returns Ok(Version(items)).
CollectEnd ==
    /\ status = "scanning"
    /\ LET item == ComponentParserNext(parser)
       IN  /\ item.kind = "None"
           /\ parser' = item.parser
    /\ version' = Some(items)
    /\ items' = <<>>
    /\ status' = "ok"
    /\ UNCHANGED <<text, failure, rendered, original>>
    /\ UNCHANGED orderVars

\* collect: the parser yields Some(Err(e)); the components gathered are
\* dropped and from_str returns Err(e).
CollectErr ==
    /\ status = "scanning"
    /\ LET item == ComponentParserNext(parser)
       IN  /\ item.kind = "Err"
           /\ parser' = item.parser
           /\ failure' = Some(item.fragment)
    /\ items' = <<>>
    /\ status' = "err"
    /\ UNCHANGED <<text, version, rendered, original>>
    /\ UNCHANGED orderVars

\* Version::default().
Default ==
    /\ status = "idle"
    /\ status' = "ok"
    /\ version' = Some(VersionDefault)
    /\ UNCHANGED <<text, parser, items, failure, rendered, original>>
    /\ UNCHANGED orderVars

\* version.to_string(), through impl Display for Version.
Display ==
    /\ status = "ok"
    /\ rendered = None
    /\ rendered' = Some(VersionDisplay(version[1]))
    /\ UNCHANGED <<status, text, parser, items, version, failure, original>>
    /\ UNCHANGED orderVars

\* The rendered text is handed to Version::from_str again.
Reparse ==
    /\ status = "ok"
    /\ rendered # None
    /\ original = None
    /\ original' = version
    /\ text' = rendered[1]
    /\ parser' = ComponentParserFrom(rendered[1])
    /\ status' = "scanning"
    /\ version' = None
    /\ rendered' = None
    /\ UNCHANGED <<items, failure>>
    /\ UNCHANGED orderVars

Next ==
    \/ FromStr
    \/ CollectItem
    \/ CollectEnd
    \/ CollectErr
    \/ Default
    \/ Display
    \/ Reparse

Spec == Init /\ [][Next]_vars

(***************************************************************************)
(* Equality, ordering and sorting of Versions.                             *)
(***************************************************************************)
Components ==
    {Number(n) : n \in CmpNumbers} \cup {Identifier(s) : s \in CmpIdentifiers}

\* The Versions handed to eq / cmp; the empty one is what from_str("") gives.
Versions == SeqsUpTo(Components, MaxComponents)

\* Vec::reverse.
RECURSIVE Reverse(_)
Reverse(list) ==
    IF list = <<>> THEN <<>> ELSE Append(Reverse(Tail(list)), Head(list))

\* x put into an ascending list, behind every element that is not greater.
RECURSIVE Insert(_, _)
Insert(x, list) ==
    IF list = <<>> THEN <<x>>
    ELSE IF VersionCmp(Head(list), x) = "Greater" THEN <<x>> \o list
    ELSE <<Head(list)>> \o Insert(x, Tail(list))

\* slice::sort by Version::cmp: a stable sort.
RECURSIVE SortVersions(_)
SortVersions(list) ==
    IF list = <<>> THEN <<>>
    ELSE Insert(list[Len(list)], SortVersions(SubSeq(list, 1, Len(list) - 1)))

InitOrd ==
    /\ status = "idle"
    /\ text = <<>>
    /\ parser = ComponentParserFrom(<<>>)
    /\ items = <<>>
    /\ version = None
    /\ failure = None
    /\ rendered = None
    /\ original = None
    /\ a \in Versions
    /\ b \in Versions
    /\ ordering = None
    /\ equal = None
    /\ c = None
    /\ sorted = None

\* a.cmp(&b)
Cmp ==
    /\ ordering = None
    /\ sorted = None
    /\ ordering' = Some(VersionCmp(a, b))
    /\ UNCHANGED <<a, b, equal, c, sorted>>
    /\ UNCHANGED parseVars

\* a == b
Eq ==
    /\ equal = None
    /\ sorted = None
    /\ equal' = Some(VersionEq(a, b))
    /\ UNCHANGED <<a, b, ordering, c, sorted>>
    /\ UNCHANGED parseVars

\* vec![a, b, third], reversed and sorted, as test_ordering does.
Sort ==
    /\ ordering = None
    /\ equal = None
    /\ sorted = None
    /\ \E third \in Versions :
          /\ c' = Some(third)
          /\ sorted' = Some(SortVersions(Reverse(<<a, b, third>>)))
    /\ UNCHANGED <<a, b, ordering, equal>>
    /\ UNCHANGED parseVars

NextOrd ==
    \/ Cmp
    \/ Eq
    \/ Sort

SpecOrd == InitOrd /\ [][NextOrd]_vars

(***************************************************************************)
(* Claims about equality and ordering, checked under SpecOrd.              *)
(***************************************************************************)
\* k components Number(0).
Zeros(k) == [i \in 1..k |-> Number(0)]

\* C1: a trailing Number(0) is invisible to equality and ordering:
\* eq(a ++ [0], b) = eq(a, b) and cmp(a ++ [0], b) = cmp(a, b), a equals a
\* followed by any number of zeros, and a followed by any other component
\* differs from a.
C1_TrailingZeroInvisible ==
    /\ equal # None => VersionEq(Append(a, Number(0)), b) = equal[1]
    /\ ordering # None => VersionCmp(Append(a, Number(0)), b) = ordering[1]
    /\ equal # None =>
          /\ \A k \in 0..MaxZeros :
                /\ VersionEq(a, a \o Zeros(k))
                /\ VersionEq(a \o Zeros(k), a)
          /\ \A comp \in Components \ {Number(0)} :
                /\ ~VersionEq(Append(a, comp), a)
                /\ ~VersionEq(a, Append(a, comp))

\* C1 witness: "1.2.0" was compared with "1.2" and found equal.
C1_Witness ==
    /\ equal = Some(TRUE)
    /\ ordering = Some("Equal")
    /\ b # <<>>
    /\ a = Append(b, Number(0))

\* C2: cmp(a, b) = Less iff cmp(b, a) = Greater; exactly one of a < b,
\* a == b, a > b holds, with == taken from eq and < and > from cmp; and a
\* Version equals itself under both.
C2_TotalAndConsistent ==
    (ordering # None /\ equal # None) =>
        /\ ordering[1] = "Less" <=> VersionCmp(b, a) = "Greater"
        /\ ordering[1] = "Greater" <=> VersionCmp(b, a) = "Less"
        /\ equal[1] <=> ordering[1] = "Equal"
        /\ Cardinality({r \in {"lt", "eq", "gt"} :
                          \/ r = "lt" /\ ordering[1] = "Less"
                          \/ r = "eq" /\ equal[1]
                          \/ r = "gt" /\ ordering[1] = "Greater"}) = 1
        /\ a = b => (equal[1] /\ ordering[1] = "Equal")

\* C2 witness: a Version with a Number and an Identifier compared with itself.
C2_Witness ==
    /\ ordering # None
    /\ equal # None
    /\ a = b
    /\ \E i \in 1..Len(a) : a[i].kind = "Identifier"
    /\ \E i \in 1..Len(a) : a[i].kind = "Number"

NotGreater(v, w) == VersionCmp(v, w) # "Greater"

\* C3: the ordering is transitive (a <= b and b <= c imply a <= c), so is
\* equality, and a sorted list has every element <= every later element.
C3_Transitive ==
    sorted # None =>
        /\ (NotGreater(a, b) /\ NotGreater(b, c[1])) => NotGreater(a, c[1])
        /\ (VersionEq(a, b) /\ VersionEq(b, c[1])) => VersionEq(a, c[1])
        /\ Len(sorted[1]) = 3
        /\ \A i \in 1..3 : \A j \in (i + 1)..3 : NotGreater(sorted[1][i], sorted[1][j])

\* C3 witness: three Versions of three different lengths, one holding an
\* Identifier, sorted into strictly ascending order.
C3_Witness ==
    /\ sorted # None
    /\ Cardinality({Len(a), Len(b), Len(c[1])}) = 3
    /\ \E i \in 1..Len(a) : a[i].kind = "Identifier"
    /\ VersionCmp(sorted[1][1], sorted[1][2]) = "Less"
    /\ VersionCmp(sorted[1][2], sorted[1][3]) = "Less"
    /\ sorted[1] # <<a, b, c[1]>>

\* short is a proper prefix of long.
IsProperPrefix(short, long) ==
    /\ Len(short) < Len(long)
    /\ SubSeq(long, 1, Len(short)) = short

\* The first component of long behind the end of short that is not Number(0),
\* if there is one.
FirstBeyond(short, long) ==
    LET at == {i \in (Len(short) + 1)..Len(long) : long[i] # Number(0)}
    IN  IF at = {} THEN None
        ELSE Some(long[CHOOSE i \in at : \A j \in at : i <= j])

\* C4: when one Version is exhausted first and the two agree up to there, the
\* exhausted side is Less if the next component of the other side that is not
\* a phantom zero is a Number, and Greater if it is an Identifier.
C4_MissingComponent ==
    ordering # None =>
        /\ (IsProperPrefix(a, b) /\ FirstBeyond(a, b) # None) =>
              ordering[1] = IF FirstBeyond(a, b)[1].kind = "Number"
                            THEN "Less" ELSE "Greater"
        /\ (IsProperPrefix(b, a) /\ FirstBeyond(b, a) # None) =>
              ordering[1] = IF FirstBeyond(b, a)[1].kind = "Number"
                            THEN "Greater" ELSE "Less"

\* C4 witness: a Version compared with itself followed by "0.rc": a phantom
\* zero is skipped, then the exhausted side meets an Identifier and is Greater.
C4_Witness ==
    /\ ordering = Some("Greater")
    /\ IsProperPrefix(a, b)
    /\ b[Len(a) + 1] = Number(0)
    /\ FirstBeyond(a, b) # None
    /\ FirstBeyond(a, b)[1].kind = "Identifier"

\* The first position where both Versions hold a component and the two
\* components differ, if there is one before either is exhausted.
FirstDifference(v, w) ==
    LET both == 1..(IF Len(v) < Len(w) THEN Len(v) ELSE Len(w))
        at == {i \in both : v[i] # w[i]}
    IN  IF at = {} THEN None ELSE Some(CHOOSE i \in at : \A j \in at : i <= j)

\* C5 as claimed: where both Versions hold a component and the first
\* difference is a Number against an Identifier, the Number is less than the
\* Identifier and cmp returns Less for the side holding the Number.
C5_NumberLessThanIdentifier ==
    (ordering # None /\ FirstDifference(a, b) # None) =>
        LET i == FirstDifference(a, b)[1]
        IN  /\ (a[i].kind = "Number" /\ b[i].kind = "Identifier") =>
                  /\ ComponentCmp(a[i], b[i]) = "Less"
                  /\ ordering[1] = "Less"
            /\ (a[i].kind = "Identifier" /\ b[i].kind = "Number") =>
                  /\ ComponentCmp(a[i], b[i]) = "Greater"
                  /\ ordering[1] = "Greater"

\* C5 as amended: where both Versions hold a component and the first
\* difference is a Number against an Identifier, the Identifier is less than
\* the Number and cmp returns Greater for the side holding the Number.
C5_IdentifierLessThanNumber ==
    (ordering # None /\ FirstDifference(a, b) # None) =>
        LET i == FirstDifference(a, b)[1]
        IN  /\ (a[i].kind = "Number" /\ b[i].kind = "Identifier") =>
                  /\ ComponentCmp(a[i], b[i]) = "Greater"
                  /\ ordering[1] = "Greater"
            /\ (a[i].kind = "Identifier" /\ b[i].kind = "Number") =>
                  /\ ComponentCmp(a[i], b[i]) = "Less"
                  /\ ordering[1] = "Less"

\* C5 witness: "1.0" was compared with "1.a" and is Greater.
C5_Witness ==
    /\ ordering = Some("Greater")
    /\ Len(a) = 2
    /\ Len(b) = 2
    /\ a[1] = b[1]
    /\ a[2] = Number(0)
    /\ b[2].kind = "Identifier"

(***************************************************************************)
(* Claims about parsing and rendering, checked under Spec.                 *)
(***************************************************************************)
StartsWith(input, pat) ==
    Len(input) >= Len(pat) /\ SubSeq(input, 1, Len(pat)) = pat

AllIn(run, chars) == \A i \in 1..Len(run) : run[i] \in chars

\* C6: every Version a constructor returned holds at least one component.
C6_VersionNonEmpty == version # None => Len(version[1]) >= 1

\* C7: a failed parse returns no Version, and the fragment of its error is the
\* input the scanner had left at the failing step: a suffix of the text,
\* behind a consumed part made of components and single separators only, and
\* starting where no component can be read -- at the end of the text behind a
\* separator, at a digit run that overflows, at the " (" of a malformed
\* suffix, or at a character that is neither digit nor letter.
C7_FailureFragment ==
    status = "err" =>
        /\ version = None
        /\ items = <<>>
        /\ failure # None
        /\ LET frag == failure[1]
               k == Len(text) - Len(frag)
           IN  /\ frag = parser.input
               /\ k >= 0
               /\ SubSeq(text, k + 1, Len(text)) = frag
               /\ \A i \in 1..k :
                     text[i] \in is_ascii_digit \cup is_ascii_alphabetic
                                 \cup COMPONENT_SEPARATORS
               /\ k > 0 => text[1] \notin COMPONENT_SEPARATORS
               /\ \A i \in 1..(k - 1) :
                     ~(text[i] \in COMPONENT_SEPARATORS
                       /\ text[i + 1] \in COMPONENT_SEPARATORS)
               /\ frag = <<>> => (k > 0 /\ text[k] \in COMPONENT_SEPARATORS)
               /\ frag # <<>> =>
                     /\ Head(frag) \notin is_ascii_alphabetic
                     /\ Head(frag) \in is_ascii_digit =>
                           /\ ParseU64(SubSeq(frag, 1, RunLen(frag, is_ascii_digit)))
                                 = None
                           /\ k > 0 => text[k] \notin is_ascii_digit

\* C7 witness: a parse that failed at an overflowing digit run behind a
\* component and a separator.
C7_Witness ==
    /\ status = "err"
    /\ failure # None
    /\ failure[1] # <<>>
    /\ Head(failure[1]) \in is_ascii_digit
    /\ Len(text) >= Len(failure[1]) + 2

\* The text behind " (" is a well-formed vendor suffix: it holds exactly one
\* ')', as its last character.
WellFormedSuffix(tail) ==
    /\ tail # <<>>
    /\ tail[Len(tail)] = ")"
    /\ Cardinality({i \in 1..Len(tail) : tail[i] = ")"}) = 1

C8_Step ==
    (status = "scanning" /\ StartsWith(parser.input, <<" ", "(">>)) =>
        IF items # <<>> /\ WellFormedSuffix(SubSeq(parser.input, 3, Len(parser.input)))
        THEN /\ status' = "ok"
             /\ version' = Some(items)
             /\ failure' = None
        ELSE /\ status' = "err"
             /\ version' = None
             /\ failure' = Some(parser.input)

\* C8: when the input left starts with " (" and a component has been
\* produced, the parse ends successfully with the components produced so far
\* iff the text behind " (" holds exactly one ')', as the last character of
\* the input; otherwise, and always before the first component, the parse
\* fails with the fragment starting at the " (".
C8_VendorSuffix == [][C8_Step]_vars

\* C8 witness: a text with two components and a vendor suffix was parsed.
C8_Witness ==
    /\ status = "ok"
    /\ original = None
    /\ version # None
    /\ Len(version[1]) = 2
    /\ \E i \in 1..(Len(text) - 1) : SubSeq(text, i, i + 1) = <<" ", "(">>

\* C9: the rendered text of a Version parses, to the same component sequence
\* (so to an equal Version), and that Version renders as the same text.
C9_RoundTrip ==
    (original # None /\ status # "scanning") =>
        /\ status = "ok"
        /\ version = original
        /\ VersionEq(version[1], original[1])
        /\ rendered # None => rendered[1] = text

\* C9 witness: a Version holding a two-digit Number and an Identifier was
\* rendered, parsed again and rendered again.
C9_Witness ==
    /\ original # None
    /\ status = "ok"
    /\ rendered # None
    /\ \E i \in 1..Len(original[1]) : original[1][i].kind = "Identifier"
    /\ \E i \in 1..Len(original[1]) : original[1][i].number >= 10

\* One component was produced: at most one separator was skipped, none before
\* the first component, and the component is the maximal run of digits or of
\* letters that follows.
C10_Step ==
    (status = "scanning" /\ Len(items') = Len(items) + 1) =>
        LET before == parser.input
            after == parser'.input
            used == Len(before) - Len(after)
            nsep == IF Head(before) \in COMPONENT_SEPARATORS THEN 1 ELSE 0
            run == SubSeq(before, nsep + 1, used)
            comp == items'[Len(items')]
        IN  /\ used >= 1
            /\ SubSeq(before, used + 1, Len(before)) = after
            /\ items = <<>> => nsep = 0
            /\ run # <<>>
            /\ \/ /\ AllIn(run, is_ascii_digit)
                  /\ comp.kind = "Number"
                  /\ ParseU64(run) = Some(comp.number)
                  /\ after # <<>> => Head(after) \notin is_ascii_digit
               \/ /\ AllIn(run, is_ascii_alphabetic)
                  /\ comp = Identifier(run)
                  /\ after # <<>> => Head(after) \notin is_ascii_alphabetic

\* The components of a parsed Version: an Identifier is a non-empty string
\* of letters.
WellFormedComponents ==
    \A i \in 1..Len(version[1]) :
        version[1][i].kind = "Identifier" =>
            /\ version[1][i].id # <<>>
            /\ AllIn(version[1][i].id, is_ascii_alphabetic)

\* Two separators in a row somewhere in the first n characters.
ConsecutiveSeparators(input, n) ==
    \E i \in 1..(n - 1) :
        input[i] \in COMPONENT_SEPARATORS /\ input[i + 1] \in COMPONENT_SEPARATORS

\* Where the vendor suffix of a text starts: its first " (", or its end.
SuffixStart(input) ==
    LET at == {i \in 1..(Len(input) - 1) : SubSeq(input, i, i + 1) = <<" ", "(">>}
    IN  IF at = {} THEN Len(input) ELSE CHOOSE i \in at : \A j \in at : i <= j

C10_ParsedAsClaimed ==
    (status = "ok" /\ version # None) =>
        /\ WellFormedComponents
        /\ text # <<>> =>
              /\ Head(text) \notin COMPONENT_SEPARATORS
              /\ text[Len(text)] \notin COMPONENT_SEPARATORS
        /\ ~ConsecutiveSeparators(text, Len(text))

C10_ParsedAmended ==
    (status = "ok" /\ version # None) =>
        /\ WellFormedComponents
        /\ text # <<>> =>
              /\ Head(text) \notin COMPONENT_SEPARATORS
              /\ text[Len(text)] \notin COMPONENT_SEPARATORS
        /\ ~ConsecutiveSeparators(text, SuffixStart(text))

\* C10 as claimed: separators are skipped singly and only between two
\* components, every component is a maximal run, and a text that begins with
\* a separator, holds two separators in a row or ends with a separator does
\* not parse.
C10_SeparatorsAsClaimed == [][C10_Step /\ C10_ParsedAsClaimed']_vars

\* C10 as amended: as claimed, but two separators in a row defeat the parse
\* only ahead of the vendor suffix; inside an accepted suffix they are
\* discarded with it.
C10_SeparatorsAmended == [][C10_Step /\ C10_ParsedAmended']_vars

\* C10 witness: a letter run directly followed by a digit run, then one
\* separator and a third component, were parsed as three components.
C10_Witness ==
    /\ status = "ok"
    /\ original = None
    /\ version # None
    /\ Len(version[1]) = 3
    /\ version[1][1].kind = "Identifier"
    /\ version[1][2].kind = "Number"
    /\ Len(text) = 4
    /\ text[3] \in COMPONENT_SEPARATORS

====
